---------------------------- MODULE Spec2Model ----------------------------
(***************************************************************************)
(* State-machine model of the Titanic explorer web application:            *)
(*   - POST /data       (main.py, handle_data_request)                     *)
(*   - GET /questions/N (main.py, run_specific_question ->                 *)
(*                       analysis_service.py, AnalysisService)             *)
(*                                                                         *)
(* Text is modelled as a sequence of one-character strings, so that        *)
(* strip / split / lower / str() / float() are computed, not assumed.      *)
(***************************************************************************)
EXTENDS Integers, Sequences, FiniteSets, TLC

(***************************************************************************)
(* Bounds of the model                                                     *)
(***************************************************************************)
\* number of dataset rows loaded into the model's table
NumRows == 21
\* largest integer row limit a request carries
MaxLimit == 2
\* number of worker threads serving GET /questions/{id} concurrently
NumThreads == 2

(***************************************************************************)
(* Python str primitives                                                   *)
(***************************************************************************)
UpperChars == <<"A", "B", "C", "D", "E", "F", "G", "H", "I", "J", "K", "L", "M", "N", "O", "P", "Q", "R", "S", "T", "U", "V", "W", "X", "Y", "Z">>
LowerChars == <<"a", "b", "c", "d", "e", "f", "g", "h", "i", "j", "k", "l", "m", "n", "o", "p", "q", "r", "s", "t", "u", "v", "w", "x", "y", "z">>
DigitChars == <<"0", "1", "2", "3", "4", "5", "6", "7", "8", "9">>

\* str.lower() on one character
LowerChar(c) ==
  IF \E i \in 1..Len(UpperChars) : UpperChars[i] = c
  THEN LowerChars[CHOOSE i \in 1..Len(UpperChars) : UpperChars[i] = c]
  ELSE c

\* str.lower()
Lower(s) == [i \in 1..Len(s) |-> LowerChar(s[i])]

IsSpace(c) == c = " "

\* str.strip(): drop leading and trailing whitespace
Strip(s) ==
  LET idx == {i \in 1..Len(s) : ~IsSpace(s[i])}
  IN IF idx = {} THEN <<>>
     ELSE LET lo == CHOOSE i \in idx : \A j \in idx : i <= j
              hi == CHOOSE i \in idx : \A j \in idx : i >= j
          IN SubSeq(s, lo, hi)

\* str.split(","): the pieces between commas, empty pieces kept
RECURSIVE Split(_)
Split(s) ==
  LET commas == {i \in 1..Len(s) : s[i] = ","}
  IN IF commas = {} THEN <<s>>
     ELSE LET k == CHOOSE i \in commas : \A j \in commas : i <= j
          IN <<SubSeq(s, 1, k - 1)>> \o Split(SubSeq(s, k + 1, Len(s)))

\* ", ".join(names)
RECURSIVE Join(_)
Join(names) ==
  IF names = <<>> THEN <<>>
  ELSE IF Len(names) = 1 THEN names[1]
  ELSE names[1] \o <<",", " ">> \o Join(Tail(names))

\* str(n) for a non-negative int
RECURSIVE Digits(_)
Digits(n) ==
  IF n < 10 THEN <<DigitChars[n + 1]>>
  ELSE Digits(n \div 10) \o <<DigitChars[(n % 10) + 1]>>

\* n written with exactly w digits (leading zeros kept)
RECURSIVE Padded(_, _)
Padded(n, w) ==
  IF w = 0 THEN <<>>
  ELSE Padded(n \div 10, w - 1) \o <<DigitChars[(n % 10) + 1]>>

RECURSIVE Pow10(_)
Pow10(e) == IF e = 0 THEN 1 ELSE 10 * Pow10(e - 1)

(***************************************************************************)
(* Floating point values: a finite decimal m / 10^e, NaN, or +-infinity    *)
(***************************************************************************)
Fin(m, e) == [k |-> "fin", m |-> m, e |-> e]
NaN       == [k |-> "nan", m |-> 0, e |-> 0]
Inf(sgn)  == [k |-> "inf", m |-> sgn, e |-> 0]
\* float(text) raising ValueError
ValueError == [k |-> "err", m |-> 0, e |-> 0]

\* pd.notna on a float
NotNa(x) == x.k # "nan"

\* three-way comparison of two non-NaN floats: -1, 0, 1
Cmp(a, b) ==
  IF a.k = "inf" /\ b.k = "inf"
    THEN (IF a.m = b.m THEN 0 ELSE IF a.m < b.m THEN -1 ELSE 1)
  ELSE IF a.k = "inf" THEN a.m
  ELSE IF b.k = "inf" THEN -b.m
  ELSE LET x == a.m * Pow10(b.e)
           y == b.m * Pow10(a.e)
       IN IF x = y THEN 0 ELSE IF x < y THEN -1 ELSE 1

\* IEEE comparisons: every ordered comparison with NaN is False, != is True
FloatEq(a, b) == NotNa(a) /\ NotNa(b) /\ Cmp(a, b) = 0
FloatNe(a, b) == ~FloatEq(a, b)
FloatGt(a, b) == NotNa(a) /\ NotNa(b) /\ Cmp(a, b) = 1
FloatLt(a, b) == NotNa(a) /\ NotNa(b) /\ Cmp(a, b) = -1
FloatGe(a, b) == NotNa(a) /\ NotNa(b) /\ Cmp(a, b) >= 0
FloatLe(a, b) == NotNa(a) /\ NotNa(b) /\ Cmp(a, b) <= 0

IsDigit(c) == \E i \in 1..Len(DigitChars) : DigitChars[i] = c
DigitVal(c) == (CHOOSE i \in 1..Len(DigitChars) : DigitChars[i] = c) - 1

RECURSIVE DigitsVal(_)
DigitsVal(s) ==
  IF s = <<>> THEN 0 ELSE 10 * DigitsVal(SubSeq(s, 1, Len(s) - 1)) + DigitVal(s[Len(s)])

\* float(text) of an unsigned literal: digits with at most one ".", or
\* nan / inf / infinity in any letter case.  Exponents ("1e3") and digit
\* separators ("1_0") are not covered; no request of the model carries one.
ParseUnsigned(s) ==
  LET low  == Lower(s)
      dots == {i \in 1..Len(s) : s[i] = "."}
      digs == SelectSeq(s, IsDigit)
  IN IF low = <<"n", "a", "n">> THEN NaN
     ELSE IF low = <<"i", "n", "f">> \/ low = <<"i", "n", "f", "i", "n", "i", "t", "y">> THEN Inf(1)
     ELSE IF /\ Cardinality(dots) <= 1
             /\ Len(digs) >= 1
             /\ \A i \in 1..Len(s) : IsDigit(s[i]) \/ s[i] = "."
       THEN Fin(DigitsVal(digs),
                IF dots = {} THEN 0 ELSE Len(s) - (CHOOSE i \in dots : TRUE))
     ELSE ValueError

Negate(x) ==
  IF x.k = "fin" THEN Fin(-x.m, x.e)
  ELSE IF x.k = "inf" THEN Inf(-x.m)
  ELSE x

\* float(text): surrounding whitespace ignored, optional sign
ParseFloat(text) ==
  LET s == Strip(text)
  IN IF s = <<>> THEN ValueError
     ELSE IF s[1] = "-" THEN Negate(ParseUnsigned(Tail(s)))
     ELSE IF s[1] = "+" THEN ParseUnsigned(Tail(s))
     ELSE ParseUnsigned(s)

\* pd.to_numeric(text, errors="coerce") on one string: unparseable becomes NaN
\* (taken to accept the literals float() accepts)
CoerceText(text) ==
  LET x == ParseFloat(text) IN IF x.k = "err" THEN NaN ELSE x

(***************************************************************************)
(* The table: DataService("titanic").get_df()                              *)
(***************************************************************************)
IntCell(v)      == [t |-> "int",   v |-> v, e |-> 0, s |-> <<>>]
FloatCell(m, e) == [t |-> "float", v |-> m, e |-> e, s |-> <<>>]
BoolCell(b)     == [t |-> "bool",  v |-> IF b THEN 1 ELSE 0, e |-> 0, s |-> <<>>]
StrCell(s)      == [t |-> "str",   v |-> 0, e |-> 0, s |-> s]
Missing         == [t |-> "nan",   v |-> 0, e |-> 0, s |-> <<>>]

\* df.columns (a subset of the dataset's columns, in dataset order)
Columns ==
  << <<"s", "u", "r", "v", "i", "v", "e", "d">>, <<"p", "c", "l", "a", "s", "s">>, <<"s", "e", "x">>, <<"a", "g", "e">>, <<"f", "a", "r", "e">>,
     <<"e", "m", "b", "a", "r", "k", "e", "d">>, <<"c", "l", "a", "s", "s">>, <<"a", "l", "o", "n", "e">> >>

\* sample passengers of the dataset; age and embarked have missing entries
Dataset ==
  << << IntCell(0), IntCell(3), StrCell(<<"m", "a", "l", "e">>),   FloatCell(220, 1), FloatCell(725, 2),
        StrCell(<<"S">>), StrCell(<<"T", "h", "i", "r", "d">>), BoolCell(FALSE) >>,
     << IntCell(1), IntCell(1), StrCell(<<"f", "e", "m", "a", "l", "e">>), FloatCell(380, 1), FloatCell(712833, 4),
        StrCell(<<"C">>), StrCell(<<"F", "i", "r", "s", "t">>), BoolCell(FALSE) >>,
     << IntCell(0), IntCell(3), StrCell(<<"m", "a", "l", "e">>),   Missing,           FloatCell(84583, 4),
        StrCell(<<"Q">>), StrCell(<<"T", "h", "i", "r", "d">>), BoolCell(TRUE) >>,
     << IntCell(1), IntCell(1), StrCell(<<"f", "e", "m", "a", "l", "e">>), FloatCell(380, 1), FloatCell(800, 1),
        Missing,        StrCell(<<"F", "i", "r", "s", "t">>), BoolCell(TRUE) >>,
     << IntCell(0), IntCell(3), StrCell(<<"m", "a", "l", "e">>),   FloatCell(350, 1), FloatCell(805, 2),
        StrCell(<<"S">>), StrCell(<<"T", "h", "i", "r", "d">>), BoolCell(TRUE) >>,
     << IntCell(1), IntCell(3), StrCell(<<"f", "e", "m", "a", "l", "e">>), FloatCell(260, 1), FloatCell(7925, 3),
        StrCell(<<"S">>), StrCell(<<"T", "h", "i", "r", "d">>), BoolCell(TRUE) >> >>

\* the DataFrame held by the DataService: NumRows rows, the sample
\* passengers repeated in order
df == [r \in 1..NumRows |-> Dataset[((r - 1) % Len(Dataset)) + 1]]

RowIds == 1..Len(df)

\* position of a real column name in df.columns
ColIndex(name) == CHOOSE i \in 1..Len(Columns) : Columns[i] = name

\* `name in df.columns`: exact, case-sensitive
IsRealColumn(name) == \E i \in 1..Len(Columns) : Columns[i] = name

\* df[name]: one cell per row
Series(name) == LET c == ColIndex(name) IN [r \in RowIds |-> df[r][c]]

\* astype(str) on one cell; a missing value becomes the text "nan"
AsStr(cell) ==
  IF cell.t = "int" THEN Digits(cell.v)
  ELSE IF cell.t = "float"
    THEN Digits(cell.v \div Pow10(cell.e)) \o <<".">> \o Padded(cell.v % Pow10(cell.e), cell.e)
  ELSE IF cell.t = "bool" THEN (IF cell.v = 1 THEN <<"T", "r", "u", "e">> ELSE <<"F", "a", "l", "s", "e">>)
  ELSE IF cell.t = "str" THEN cell.s
  ELSE <<"n", "a", "n">>

\* pd.to_numeric(s, errors="coerce") on one cell
ToNumeric(cell) ==
  IF cell.t = "int" \/ cell.t = "bool" THEN Fin(cell.v, 0)
  ELSE IF cell.t = "float" THEN Fin(cell.v, cell.e)
  ELSE IF cell.t = "str" THEN CoerceText(cell.s)
  ELSE NaN

(***************************************************************************)
(* POST /data: the pieces of handle_data_request                           *)
(***************************************************************************)
\* default_cols, restricted to the columns present in the table
DefaultCols ==
  SelectSeq(<< <<"s", "u", "r", "v", "i", "v", "e", "d">>, <<"c", "l", "a", "s", "s">>, <<"s", "e", "x">>, <<"a", "g", "e">>, <<"f", "a", "r", "e">>, <<"e", "m", "b", "a", "r", "k", "e", "d">> >>,
            IsRealColumn)

NonEmpty(s) == s # <<>>

\* [c.strip() for c in columns.split(",") if c.strip()]
RequestedCols(columns) ==
  LET parts == Split(columns)
  IN SelectSeq([i \in 1..Len(parts) |-> Strip(parts[i])], NonEmpty)

NotRealColumn(name) == ~IsRealColumn(name)

\* faulty variant of MissingCols: the names are looked up through the lower-case map
MissingColsIgnoreCase(requested_cols) ==
  SelectSeq(requested_cols,
            LAMBDA c : ~\E i \in 1..Len(Columns) : Lower(Columns[i]) = Lower(c))

\* faulty variant of ViewCols: the selection comes out in table order
ViewColsTableOrder(columns, requested_cols) ==
  IF columns # <<>>
  THEN SelectSeq(Columns, LAMBDA c : \E i \in 1..Len(requested_cols) : requested_cols[i] = c)
  ELSE DefaultCols

\* the columns of df_view: df[requested_cols] or df[default_cols]
ViewCols(columns, requested_cols) ==
  IF columns # <<>> THEN requested_cols ELSE DefaultCols

\* [c for c in requested_cols if c not in df.columns]
MissingCols(requested_cols) == SelectSeq(requested_cols, NotRealColumn)

\* `fkey in col_map`, col_map = {c.lower(): c for c in df.columns}
InColMap(fkey) == \E i \in 1..Len(Columns) : Lower(Columns[i]) = fkey

\* col_map[fkey]: a later column overwrites an earlier one with the same key
ColMap(fkey) ==
  LET hits == {i \in 1..Len(Columns) : Lower(Columns[i]) = fkey}
  IN Columns[CHOOSE i \in hits : \A j \in hits : j <= i]

\* re.compile(pattern) raising: a parenthesis that is not closed / not opened.
\* Of the regular-expression syntax, the requests of the model use only
\* literals, "." and "(".
RECURSIVE ParenDepthOk(_, _)
ParenDepthOk(p, depth) ==
  IF p = <<>> THEN depth = 0
  ELSE IF p[1] = "(" THEN ParenDepthOk(Tail(p), depth + 1)
  ELSE IF p[1] = ")" THEN depth > 0 /\ ParenDepthOk(Tail(p), depth - 1)
  ELSE ParenDepthOk(Tail(p), depth)

ReError(pattern) == ~ParenDepthOk(pattern, 0)

\* one pattern character against one text character, re.IGNORECASE;
\* "." matches any character
ReCharMatch(p, c) == p = "." \/ LowerChar(p) = LowerChar(c)

\* re.search(pattern, text, re.IGNORECASE) for a pattern of literals and "."
ReSearch(pattern, text) ==
  \E off \in 0..(Len(text) - Len(pattern)) :
    \A j \in 1..Len(pattern) : ReCharMatch(pattern[j], text[off + j])

\* s.astype(str).str.contains(value, case=False, na=False)
ContainsMask(s, value) == [r \in RowIds |-> ReSearch(value, AsStr(s[r]))]

\* faulty variant of NumericMode: left_num.notna().all() instead of .any()
NumericModeAll(s, value) ==
  /\ NotNa(CoerceText(value))
  /\ \A r \in RowIds : NotNa(ToNumeric(s[r]))

\* pd.notna(right_num) and left_num.notna().any()
NumericMode(s, value) ==
  /\ NotNa(CoerceText(value))
  /\ \E r \in RowIds : NotNa(ToNumeric(s[r]))

\* left_num == float(right_num)
NumericEq(s, value) ==
  LET right_num == CoerceText(value)
  IN [r \in RowIds |-> FloatEq(ToNumeric(s[r]), right_num)]

\* faulty variant of NumericNe: rows without a number are dropped from != as well
NumericNeDropNa(s, value) ==
  LET right_num == CoerceText(value)
  IN [r \in RowIds |-> NotNa(ToNumeric(s[r])) /\ FloatNe(ToNumeric(s[r]), right_num)]

\* left_num != float(right_num)
NumericNe(s, value) ==
  LET right_num == CoerceText(value)
  IN [r \in RowIds |-> FloatNe(ToNumeric(s[r]), right_num)]

\* s.astype(str).str.strip().str.lower() == value.strip().lower()
StringEq(s, value) ==
  LET right == Lower(Strip(value))
  IN [r \in RowIds |-> Lower(Strip(AsStr(s[r]))) = right]

\* s.astype(str).str.strip().str.lower() != value.strip().lower()
StringNe(s, value) ==
  LET right == Lower(Strip(value))
  IN [r \in RowIds |-> Lower(Strip(AsStr(s[r]))) # right]

\* the `op in ("==", "!=")` branch
EqualityMask(s, op, value) ==
  IF NumericMode(s, value)
  THEN (IF op = <<"=", "=">> THEN NumericEq(s, value) ELSE NumericNe(s, value))
  ELSE (IF op = <<"=", "=">> THEN StringEq(s, value) ELSE StringNe(s, value))

\* faulty variant of OrderingMask: >= and <= compare strictly
OrderingMaskStrict(s, op, num) ==
  [r \in RowIds |->
     IF op = <<">">> \/ op = <<">", "=">> THEN FloatGt(ToNumeric(s[r]), num)
     ELSE FloatLt(ToNumeric(s[r]), num)]

\* left_num > num, left_num < num, left_num >= num, left_num <= num
OrderingMask(s, op, num) ==
  [r \in RowIds |->
     IF op = <<">">> THEN FloatGt(ToNumeric(s[r]), num)
     ELSE IF op = <<"<">> THEN FloatLt(ToNumeric(s[r]), num)
     ELSE IF op = <<">", "=">> THEN FloatGe(ToNumeric(s[r]), num)
     ELSE FloatLe(ToNumeric(s[r]), num)]

OrderingOps == { <<">">>, <<"<">>, <<">", "=">>, <<"<", "=">> }

NoMask == <<>>
MaskResult(m)  == [kind |-> "mask", mask |-> m]
Raised         == [kind |-> "raised", mask |-> NoMask]
BadOperator    == [kind |-> "invalid_op", mask |-> NoMask]

\* the body of the try block: the mask, an exception, or the
\* "Invalid operator" return
TryMask(s, op, value) ==
  IF op = <<"c", "o", "n", "t", "a", "i", "n", "s">>
    THEN (IF ReError(value) THEN Raised ELSE MaskResult(ContainsMask(s, value)))
  ELSE IF op = <<"=", "=">> \/ op = <<"!", "=">>
    THEN MaskResult(EqualityMask(s, op, value))
  ELSE LET num == ParseFloat(value)
       IN IF num.k = "err" THEN Raised
          ELSE IF op \in OrderingOps THEN MaskResult(OrderingMask(s, op, num))
          ELSE BadOperator

\* a row limit as the handler receives it: an int, or a value int() rejects
IntLimit(n) == [isint |-> TRUE, n |-> n]
BadLimit    == [isint |-> FALSE, n |-> 0]

DefaultLimit == 20

Max(a, b) == IF a >= b THEN a ELSE b
Min(a, b) == IF a <= b THEN a ELSE b

\* faulty variant of EffectiveLimit: the limit is clamped at 0 instead of 1
EffectiveLimitFloorZero(limit) == Max(0, IF limit.isint THEN limit.n ELSE 20)

\* try: limit = int(limit) / except: limit = 20 ; limit = max(1, limit)
EffectiveLimit(limit) == Max(1, IF limit.isint THEN limit.n ELSE DefaultLimit)

\* df_view.head(limit) on a list of row ids, limit >= 0
HeadRows(rows, limit) == SubSeq(rows, 1, Min(limit, Len(rows)))

\* the row ids selected by a mask, in table order
MaskedRows(m) ==
  LET F[i \in 0..Len(df)] ==
        IF i = 0 THEN <<>> ELSE IF m[i] THEN Append(F[i - 1], i) ELSE F[i - 1]
  IN F[Len(df)]

AllRows == [i \in RowIds |-> i]

\* the positions in df.columns of the chosen columns
ColIndexes(cols) == [j \in 1..Len(cols) |-> ColIndex(cols[j])]

\* df.loc[rows, cols] / df[cols]: the cells of one row at the chosen positions
ProjectRow(r, idx) == [j \in 1..Len(idx) |-> df[r][idx[j]]]

\* faulty variant of InsertRows: the Rows column carries the source row index
InsertRowsSourceIndex(rows, cols) ==
  LET idx == ColIndexes(cols)
  IN [i \in 1..Len(rows) |-> <<IntCell(rows[i])>> \o ProjectRow(rows[i], idx)]

\* df_view.insert(0, "Rows", range(1, len(df_view) + 1))
InsertRows(rows, cols) ==
  LET idx == ColIndexes(cols)
  IN [i \in 1..Len(rows) |-> <<IntCell(i)>> \o ProjectRow(rows[i], idx)]

FormState(columns, filter_col, op, value, limit) ==
  [columns |-> columns, filter_col |-> filter_col, op |-> op, value |-> value,
   limit |-> limit]

ErrorResponse(error, arg, form) ==
  [status |-> "error", error |-> error, arg |-> arg,
   columns |-> <<>>, rows |-> <<>>, form |-> form]

TableResponse(cols, rows, form) ==
  [status |-> "table", error |-> "", arg |-> <<>>,
   columns |-> <<<<"R", "o", "w", "s">>>> \o cols, rows |-> rows, form |-> form]

ColumnsNotFound == "Column(s) not found: "
FilterColumnNotFound == "Filter column not found: "
InvalidOperator == "Invalid operator: "
InvalidFilter == "Invalid filter (operator/value mismatch)."
NoRowsMatched == "No rows matched your filter. Try a different value/operator."

\* steps 3 and 4 and the empty-result return, on the selected row ids
LimitAndRender(rows, cols, form) ==
  LET lim  == EffectiveLimit(form.limit)
      view == InsertRows(HeadRows(rows, lim), cols)
      f    == [form EXCEPT !.limit = IntLimit(lim)]
  IN IF view = <<>> THEN ErrorResponse(NoRowsMatched, <<>>, f)
     ELSE TableResponse(cols, view, f)

\* handle_data_request: the response, and the row mask it built (if any)
HandleDataRequest(columns0, filter_col0, op, value0, limit) ==
  LET columns        == Strip(columns0)
      requested_cols == RequestedCols(columns)
      missing        == MissingCols(requested_cols)
      view_cols      == ViewCols(columns, requested_cols)
      filter_col     == Strip(filter_col0)
      value          == Strip(value0)
      fkey           == Lower(filter_col)
      form           == FormState(columns, filter_col, op, value, limit)
  IN IF columns # <<>> /\ missing # <<>>
       THEN [resp |-> ErrorResponse(ColumnsNotFound, Join(missing),
                                    FormState(columns, filter_col0, op, value0, limit)),
             mask |-> NoMask]
     ELSE IF filter_col # <<>> /\ value # <<>>
       THEN IF ~InColMap(fkey)
              THEN [resp |-> ErrorResponse(FilterColumnNotFound, filter_col, form),
                    mask |-> NoMask]
            ELSE LET t == TryMask(Series(ColMap(fkey)), op, value)
                 IN IF t.kind = "invalid_op"
                      THEN [resp |-> ErrorResponse(InvalidOperator, op, form),
                            mask |-> NoMask]
                    ELSE IF t.kind = "raised"
                      THEN [resp |-> ErrorResponse(InvalidFilter, <<>>, form),
                            mask |-> NoMask]
                    ELSE [resp |-> LimitAndRender(MaskedRows(t.mask), view_cols, form),
                          mask |-> t.mask]
     ELSE [resp |-> LimitAndRender(AllRows, view_cols, form), mask |-> NoMask]

(***************************************************************************)
(* Requests the model submits to POST /data                                *)
(***************************************************************************)
ColumnsInputs ==
  { <<>>, <<" ", " ">>, <<",">>, <<"s", "e", "x", ",", "a", "g", "e">>, <<" ", "a", "g", "e", " ", ",", " ", ",", "s", "e", "x">>, <<"f", "a", "r", "e", ",", "f", "a", "r", "e">>,
    <<"f", "o", "o", ",", "b", "a", "r">>, <<"A", "g", "e", ",", "f", "o", "o", ",", "a", "g", "e", ",", "f", "o", "o">> }

FilterColInputs ==
  { <<>>, <<"a", "g", "e">>, <<"S", "E", "X">>, <<" ", "e", "m", "b", "a", "r", "k", "e", "d", " ">>, <<"s", "u", "r", "v", "i", "v", "e", "d">>, <<"a", "l", "o", "n", "e">>, <<"n", "o", "p", "e">> }

OpInputs ==
  { <<"=", "=">>, <<"!", "=">>, <<"c", "o", "n", "t", "a", "i", "n", "s">>, <<">">>, <<"<">>, <<">", "=">>, <<"<", "=">>, <<"~">> }

ValueInputs ==
  { <<>>, <<"1">>, <<"3", "8">>, <<"2", "2", ".", "0">>, <<"2", "0", "0">>, <<"n", "a", "n">>, <<"a">>, <<"n">>, <<" ", "M", "A", "L", "E", " ">>,
    <<"t", "r", "u", "e">>, <<"n", "o", "t", "a", "n", "u", "m", "b", "e", "r">>, <<"(">> }

LimitInputs == {IntLimit(n) : n \in -1..MaxLimit} \cup {BadLimit}

Requests ==
  [columns : ColumnsInputs, filter_col : FilterColInputs, op : OpInputs,
   value : ValueInputs, limit : LimitInputs]

NoRequest == [columns |-> <<>>, filter_col |-> <<>>, op |-> <<>>, value |-> <<>>,
              limit |-> BadLimit]
NoResponse == ErrorResponse("", <<>>, NoRequest)

(***************************************************************************)
(* GET /questions/{question_id}: AnalysisService                           *)
(***************************************************************************)
\* self.questions: ids 1..5, each with its title, chart title, chart file,
\* and whether the recipe calls _label_bars
Questions ==
  << [title |-> "Overall Survival Rate", chart |-> "Survival Count",
      filename |-> "survival_overall.png", label_bars |-> TRUE],
     [title |-> "Survival Rate by Sex", chart |-> "Survival Rate by Sex",
      filename |-> "survival_by_sex.png", label_bars |-> TRUE],
     [title |-> "Survival Rate by Class", chart |-> "Survival Rate by Class",
      filename |-> "survival_by_class.png", label_bars |-> TRUE],
     [title |-> "Age Distribution", chart |-> "Age Distribution",
      filename |-> "age_distribution.png", label_bars |-> FALSE],
     [title |-> "Passengers by Embarkation Port", chart |-> "Passengers by Embarkation Port",
      filename |-> "embarked_counts.png", label_bars |-> TRUE] >>

QuestionIds == 1..Len(Questions)

\* question ids the model's clients ask for; 6 is not a question
QuestionInputs == {1, 4, 6}

Threads == 1..NumThreads

\* pyplot's current figure: the artists drawn since the last clf(), and the title
EmptyFigure == [artists |-> <<>>, title |-> ""]

\* the bar container a recipe draws (counts.plot / plt.hist / plt.bar)
Bars(q) == [kind |-> "bars", of |-> q, by |-> q]

\* ax.bar_label(container, ...) called by recipe q on the container of recipe c
BarLabel(c, q) == [kind |-> "bar_label", of |-> c, by |-> q]

\* _label_bars: one bar_label for every container of the current axes
LabelBarsOn(fig, q) ==
  LET cs == SelectSeq(fig.artists, LAMBDA a : a.kind = "bars")
  IN [fig EXCEPT !.artists = @ \o [i \in 1..Len(cs) |-> BarLabel(cs[i].of, q)]]

\* the figure recipe q produces when nothing else touches the figure
Chart(q) ==
  LET drawn == [EmptyFigure EXCEPT !.artists = <<Bars(q)>>]
      lab   == IF Questions[q].label_bars THEN LabelBarsOn(drawn, q) ELSE drawn
  IN [lab EXCEPT !.title = Questions[q].chart]

NoFile == [saved |-> FALSE, fig |-> EmptyFigure]
IdleThread == [pc |-> "idle", q |-> 0, ret |-> <<>>]

VARIABLES
  pc,     \* "idle", "received" (a request is in the handler), "responded"
  req,    \* the form fields of the request being served
  resp,   \* the template context the handler returned
  mask,   \* the handler's local row mask (NoMask when none was built)
  thr,    \* per worker thread: position in run_question, question id, return value
  figure, \* matplotlib.pyplot's process-wide current figure
  files   \* static/plots: per question id, the chart file last saved

datavars == <<pc, req, resp, mask>>
plotvars == <<thr, figure, files>>
vars == <<pc, req, resp, mask, thr, figure, files>>

Init ==
  /\ pc = "idle"
  /\ req = NoRequest
  /\ resp = NoResponse
  /\ mask = NoMask
  /\ thr = [t \in Threads |-> IdleThread]
  /\ figure = EmptyFigure
  /\ files = [q \in QuestionIds |-> NoFile]

\* a form is posted to /data
ReceiveData ==
  /\ pc = "idle"
  /\ \E r \in Requests : req' = r
  /\ pc' = "received"
  /\ UNCHANGED <<resp, mask>>
  /\ UNCHANGED plotvars

\* handle_data_request runs to its return
HandleData ==
  /\ pc = "received"
  /\ LET out == HandleDataRequest(req.columns, req.filter_col, req.op, req.value, req.limit)
     IN /\ resp' = out.resp
        /\ mask' = out.mask
  /\ pc' = "responded"
  /\ UNCHANGED req
  /\ UNCHANGED plotvars

\* the response is sent; the worker is free again
SendResponse ==
  /\ pc = "responded"
  /\ pc' = "idle"
  /\ req' = NoRequest
  /\ resp' = NoResponse
  /\ mask' = NoMask
  /\ UNCHANGED plotvars

Next == ReceiveData \/ HandleData \/ SendResponse

Spec == Init /\ [][Next]_vars

\* run_question: look the id up; an unknown id returns at once
RunQuestion(t) ==
  /\ thr[t].pc = "idle"
  /\ \E q \in QuestionInputs :
       thr' = [thr EXCEPT ![t] =
                 IF q \in QuestionIds
                 THEN [pc |-> "new_plot", q |-> q, ret |-> <<>>]
                 ELSE [pc |-> "return", q |-> q,
                       ret |-> <<"Error", "Question not found", "">>]]
  /\ UNCHANGED <<figure, files>>
  /\ UNCHANGED datavars

\* _new_plot: plt.clf()
NewPlot(t) ==
  /\ thr[t].pc = "new_plot"
  /\ figure' = EmptyFigure
  /\ thr' = [thr EXCEPT ![t].pc = "plot"]
  /\ UNCHANGED files
  /\ UNCHANGED datavars

\* the recipe's drawing call, on the current axes of the current figure
Plot(t) ==
  /\ thr[t].pc = "plot"
  /\ figure' = [figure EXCEPT !.artists = Append(@, Bars(thr[t].q))]
  /\ thr' = [thr EXCEPT ![t].pc =
               IF Questions[thr[t].q].label_bars THEN "label_bars" ELSE "finish_plot"]
  /\ UNCHANGED files
  /\ UNCHANGED datavars

\* _label_bars
LabelBars(t) ==
  /\ thr[t].pc = "label_bars"
  /\ figure' = LabelBarsOn(figure, thr[t].q)
  /\ thr' = [thr EXCEPT ![t].pc = "finish_plot"]
  /\ UNCHANGED files
  /\ UNCHANGED datavars

\* _finish_plot: plt.title(...) and the cosmetic calls
FinishPlot(t) ==
  /\ thr[t].pc = "finish_plot"
  /\ figure' = [figure EXCEPT !.title = Questions[thr[t].q].chart]
  /\ thr' = [thr EXCEPT ![t].pc = "savefig"]
  /\ UNCHANGED files
  /\ UNCHANGED datavars

\* plt.savefig(f"static/plots/{filename}"): the current figure, whatever it holds
SaveFig(t) ==
  /\ thr[t].pc = "savefig"
  /\ files' = [files EXCEPT ![thr[t].q] = [saved |-> TRUE, fig |-> figure]]
  /\ thr' = [thr EXCEPT ![t].pc = "return",
                        ![t].ret = <<Questions[thr[t].q].title, "result",
                                     Questions[thr[t].q].filename>>]
  /\ UNCHANGED figure
  /\ UNCHANGED datavars

\* run_specific_question renders the template; the worker thread is free again
ReturnQuestion(t) ==
  /\ thr[t].pc = "return"
  /\ thr' = [thr EXCEPT ![t] = IdleThread]
  /\ UNCHANGED <<figure, files>>
  /\ UNCHANGED datavars

NextPlot ==
  \E t \in Threads :
    \/ RunQuestion(t)
    \/ NewPlot(t)
    \/ Plot(t)
    \/ LabelBars(t)
    \/ FinishPlot(t)
    \/ SaveFig(t)
    \/ ReturnQuestion(t)

SpecPlot == Init /\ [][NextPlot]_vars

(***************************************************************************)
(* Vocabulary of the properties: the request being served, read from req   *)
(***************************************************************************)
Responded == pc = "responded"

ColumnSet == {Columns[i] : i \in 1..Len(Columns)}

ColumnsText == Strip(req.columns)
FilterColText == Strip(req.filter_col)
ValueText == Strip(req.value)

\* the names asked for, in the order asked
AskedCols == RequestedCols(ColumnsText)

\* every asked name is a real column (also when nothing is asked)
ColumnsValid == \A i \in 1..Len(AskedCols) : AskedCols[i] \in ColumnSet

\* a filter is active: filter_col and value are non-empty after trimming
FilterActive == FilterColText # <<>> /\ ValueText # <<>>

\* filter_col names a real column, case-insensitively
FilterColResolves == \E c \in ColumnSet : Lower(c) = Lower(FilterColText)
FilterRealCol == CHOOSE c \in ColumnSet : Lower(c) = Lower(FilterColText)

\* the filter column of the source table, one cell per row
FilterCells == Series(FilterRealCol)

ValidOps == { <<"=", "=">>, <<"!", "=">>, <<"c", "o", "n", "t", "a", "i", "n", "s">>, <<">">>, <<"<">>, <<">", "=">>, <<"<", "=">> }

ValueIsNumber == ParseFloat(ValueText).k \in {"fin", "inf"}
ValueParses == ParseFloat(ValueText).k # "err"

IsError(msg) == resp.status = "error" /\ resp.error = msg

\* valid columns, resolvable filter column, valid operator and value
WellFormed ==
  /\ ColumnsValid
  /\ FilterActive =>
       /\ FilterColResolves
       /\ req.op \in ValidOps
       /\ req.op \in OrderingOps => ValueParses
       /\ req.op = <<"c", "o", "n", "t", "a", "i", "n", "s">> => ~ReError(ValueText)

\* the source rows the mask selects, in table order
Passing ==
  IF mask = NoMask THEN AllRows
  ELSE SelectSeq(AllRows, LAMBDA r : mask[r])

(***************************************************************************)
(* C1                                                                      *)
(***************************************************************************)
\* C1: with an active filter on a resolvable column and valid columns, an
\* operator outside the seven known ones is answered "Invalid operator: <op>"
\* whatever the comparison value is.
C1_UnknownOperatorIsInvalidOperator ==
  (Responded /\ ColumnsValid /\ FilterActive /\ FilterColResolves /\ req.op \notin ValidOps)
    => (IsError(InvalidOperator) /\ resp.arg = req.op)

(***************************************************************************)
(* C2                                                                      *)
(***************************************************************************)
OtherEqOp == IF req.op = <<"=", "=">> THEN <<"!", "=">> ELSE <<"=", "=">>

\* C2: the mask the handler built for (C, ==, V) or (C, !=, V) and the mask
\* of the opposite operator on the same column and value select every source
\* row exactly once between them.
C2_EqNePartition ==
  (Responded /\ mask # NoMask /\ req.op \in { <<"=", "=">>, <<"!", "=">> })
    => LET other == TryMask(Series(FilterRealCol), OtherEqOp, ValueText)
       IN /\ other.kind = "mask"
          /\ \A r \in RowIds : mask[r] # other.mask[r]

\* a != filter in numeric mode that selects a row whose age is missing
C2_Witness ==
  /\ Responded
  /\ req.op = <<"!", "=">>
  /\ FilterColText = <<"a", "g", "e">>
  /\ ValueText = <<"3", "8">>
  /\ mask # NoMask
  /\ \E r \in RowIds : FilterCells[r].t = "nan" /\ mask[r]
  /\ \E r \in RowIds : ~mask[r]

(***************************************************************************)
(* C3                                                                      *)
(***************************************************************************)
\* C3: with op = contains, a row whose filter-column value is missing is
\* never selected by the mask, whatever the comparison value is.
C3_ContainsSkipsMissing ==
  (Responded /\ req.op = <<"c", "o", "n", "t", "a", "i", "n", "s">> /\ mask # NoMask)
    => LET cell == FilterCells
       IN \A r \in RowIds : cell[r].t = "nan" => ~mask[r]

(***************************************************************************)
(* C4                                                                      *)
(***************************************************************************)
\* C4: when the trimmed column list is non-empty and names an unknown
\* column, the answer is "Column(s) not found: " followed by exactly the
\* unknown names, in request order, duplicates kept; no filter is evaluated
\* and no other error is reported, whatever the filter fields hold.
C4_UnknownColumnsListed ==
  (Responded /\ ColumnsText # <<>> /\ ~ColumnsValid)
    => /\ IsError(ColumnsNotFound)
       /\ resp.arg = Join(SelectSeq(AskedCols, LAMBDA c : c \notin ColumnSet))
       /\ mask = NoMask

\* unknown names in a different letter case and repeated, with a filter
\* column that does not exist either
C4_Witness ==
  /\ Responded
  /\ req.columns = <<"A", "g", "e", ",", "f", "o", "o", ",", "a", "g", "e", ",", "f", "o", "o">>
  /\ req.filter_col = <<"n", "o", "p", "e">>
  /\ req.value = <<"1">>
  /\ req.op = <<"~">>
  /\ resp.arg = <<"A", "g", "e", ",", " ", "f", "o", "o", ",", " ", "f", "o", "o">>

(***************************************************************************)
(* C5                                                                      *)
(***************************************************************************)
\* the effective limit as the claim states it
ClaimedLimit ==
  IF ~req.limit.isint THEN 20
  ELSE IF req.limit.n <= 0 THEN 1
  ELSE req.limit.n

\* C5: a table answer holds exactly the first min(L, m) of the m passing
\* rows, in table order, and its Rows column counts 1, 2, ... in output order.
C5_FirstRowsNumberedFromOne ==
  (Responded /\ resp.status = "table")
    => LET passing == Passing
           k == Min(ClaimedLimit, Len(passing))
           at == [j \in 2..Len(resp.columns) |-> ColIndex(resp.columns[j])]
       IN /\ Len(resp.rows) = k
          /\ \A i \in 1..k :
               /\ resp.rows[i][1] = IntCell(i)
               /\ \A j \in 2..Len(resp.columns) :
                    resp.rows[i][j] = df[passing[i]][at[j]]

\* more than two rows pass, the limit keeps two, and the second one is not
\* source row 2
C5_Witness ==
  /\ Responded
  /\ resp.status = "table"
  /\ req.limit = IntLimit(2)
  /\ mask # NoMask
  /\ Len(Passing) > 2
  /\ Passing[2] # 2
  /\ Len(resp.rows) = 2
  /\ resp.rows[2][1] = IntCell(2)

(***************************************************************************)
(* C6                                                                      *)
(***************************************************************************)
\* the comparison the operator names, on a column number x and the value v
Satisfies(x, v) ==
  /\ x.k # "nan"
  /\ v.k # "nan"
  /\ \/ req.op = <<">">>  /\ Cmp(x, v) = 1
     \/ req.op = <<"<">>  /\ Cmp(x, v) = -1
     \/ req.op = <<">", "=">> /\ Cmp(x, v) \in {0, 1}
     \/ req.op = <<"<", "=">> /\ Cmp(x, v) \in {-1, 0}

\* C6: for >, <, >=, <= a value that does not parse as a number is answered
\* "Invalid filter"; one that parses selects exactly the rows whose column
\* value coerces to a number satisfying the comparison.
C6_OrderingFilter ==
  (Responded /\ ColumnsValid /\ FilterActive /\ FilterColResolves /\ req.op \in OrderingOps)
    => IF ~ValueParses
       THEN IsError(InvalidFilter) /\ mask = NoMask
       ELSE /\ mask # NoMask
            /\ ~IsError(InvalidFilter)
            /\ LET cell == FilterCells
                   v == ParseFloat(ValueText)
               IN \A r \in RowIds : mask[r] <=> Satisfies(ToNumeric(cell[r]), v)

\* age >= 38 selects the rows at the boundary and not the row without an age
C6_Witness ==
  /\ Responded
  /\ req.op = <<">", "=">>
  /\ FilterColText = <<"a", "g", "e">>
  /\ ValueText = <<"3", "8">>
  /\ mask # NoMask
  /\ \E r \in RowIds : mask[r] /\ AsStr(FilterCells[r]) = <<"3", "8", ".", "0">>
  /\ \E r \in RowIds : ~mask[r] /\ FilterCells[r].t = "nan"

(***************************************************************************)
(* C7                                                                      *)
(***************************************************************************)
\* C7: a well-formed request is answered "No rows matched" exactly when a
\* filter is active and no source row passes the mask; otherwise it is
\* answered a table with at least one data row.
C7_NoRowsMatchedIffEmptyMask ==
  (Responded /\ WellFormed)
    => /\ IsError(NoRowsMatched) <=>
            (FilterActive /\ mask # NoMask /\ \A r \in RowIds : ~mask[r])
       /\ resp.status = "table" \/ IsError(NoRowsMatched)
       /\ resp.status = "table" => Len(resp.rows) >= 1
       /\ ~FilterActive => resp.status = "table"

\* age > 200: no row passes
C7_Witness ==
  /\ Responded
  /\ WellFormed
  /\ req.op = <<">">>
  /\ FilterColText = <<"a", "g", "e">>
  /\ ValueText = <<"2", "0", "0">>
  /\ mask # NoMask
  /\ IsError(NoRowsMatched)

(***************************************************************************)
(* C8                                                                      *)
(***************************************************************************)
\* the textual rendering of a cell; a missing value renders as "nan"
CellText(cell) == IF cell.t = "nan" THEN <<"n", "a", "n">> ELSE AsStr(cell)

\* the cell parses as a number
CellIsNumber(cell) == ToNumeric(cell).k # "nan"

\* C8: for == and !=, numeric comparison is used iff the value parses as a
\* number and some value of the column does; then a missing or non-numeric
\* entry fails == and passes !=.  Otherwise the comparison is trimmed,
\* case-insensitive text equality on the rendering of each value.
C8_EqualityModes ==
  (Responded /\ mask # NoMask /\ req.op \in { <<"=", "=">>, <<"!", "=">> })
    => LET cell == FilterCells
           v == ParseFloat(ValueText)
           text == Lower(ValueText)
           numeric == ValueIsNumber /\ \E r \in RowIds : CellIsNumber(cell[r])
           equal(r) ==
             IF numeric
             THEN CellIsNumber(cell[r]) /\ Cmp(ToNumeric(cell[r]), v) = 0
             ELSE Lower(Strip(CellText(cell[r]))) = text
       IN \A r \in RowIds : mask[r] <=> (IF req.op = <<"=", "=">> THEN equal(r) ELSE ~equal(r))

\* embarked == "nan" in text mode selects the row whose embarked is missing
C8_Witness ==
  /\ Responded
  /\ req.op = <<"=", "=">>
  /\ FilterColText = <<"e", "m", "b", "a", "r", "k", "e", "d">>
  /\ ValueText = <<"n", "a", "n">>
  /\ mask # NoMask
  /\ \E r \in RowIds : mask[r] /\ FilterCells[r].t = "nan"
  /\ \E r \in RowIds : ~mask[r]

(***************************************************************************)
(* C9                                                                      *)
(***************************************************************************)
\* the default list, restricted to the columns of the table
ClaimedDefault ==
  SelectSeq(<< <<"s", "u", "r", "v", "i", "v", "e", "d">>, <<"c", "l", "a", "s", "s">>, <<"s", "e", "x">>, <<"a", "g", "e">>, <<"f", "a", "r", "e">>, <<"e", "m", "b", "a", "r", "k", "e", "d">> >>,
            LAMBDA c : c \in ColumnSet)

\* C9: a table answer has the column Rows followed by exactly the requested
\* columns in the requested order (the default list when the trimmed columns
\* field is empty), with or without a filter; a well-formed filter on a
\* column outside the selection is evaluated and the column is not added.
C9_ColumnsAsRequested ==
  /\ (Responded /\ resp.status = "table")
       => /\ resp.columns[1] = <<"R", "o", "w", "s">>
          /\ Tail(resp.columns) = (IF ColumnsText = <<>> THEN ClaimedDefault ELSE AskedCols)
  /\ (Responded /\ WellFormed /\ FilterActive)
       => /\ mask # NoMask
          /\ resp.status = "table" \/ IsError(NoRowsMatched)

\* columns " age , ,sex" with a filter on alone, which is not selected
C9_Witness ==
  /\ Responded
  /\ resp.status = "table"
  /\ req.columns = <<" ", "a", "g", "e", " ", ",", " ", ",", "s", "e", "x">>
  /\ FilterColText = <<"a", "l", "o", "n", "e">>
  /\ mask # NoMask
  /\ resp.columns = << <<"R", "o", "w", "s">>, <<"a", "g", "e">>, <<"s", "e", "x">> >>

(***************************************************************************)
(* C10                                                                     *)
(***************************************************************************)
\* C10: under any interleaving of concurrent run_question calls, the chart
\* file saved for a question always holds exactly that question's chart.
C10_SavedChartIsOwnChart ==
  \A q \in QuestionIds : files[q].saved => files[q].fig = Chart(q)
=============================================================================
